---- MODULE Spec2Model ----
(***************************************************************************)
(* The ChessGame component (src/unnamed/part_000): the interaction         *)
(* controller over a chess.js rules engine.  The controller's handlers     *)
(* (handleSquareSelect, undoMove, resetGame, handleRandomMove, the         *)
(* orientation toggle) are translated from the component; the engine       *)
(* behind chessRef.current is the chess.js library, which is not part of   *)
(* the source tree, and is modelled from the rules the specification       *)
(* gives for it (section 4.1): full legality with check avoidance,         *)
(* castling, en passant, promotion, undo by snapshot, and the terminal     *)
(* conditions.                                                             *)
(*                                                                         *)
(* A square is <<file, rank>> with file 1..8 for a..h and rank 1..8.       *)
(* A piece is [color, type] as in chess.js; the empty square is null.      *)
(***************************************************************************)
EXTENDS Integers, Sequences, FiniteSets, TLC

VARIABLES
    chess,             \* chessRef.current: the engine's GameState
    selected,          \* useState<Square | null>
    legalTargets,      \* useState<Square[]>, read only through includes()
    history,           \* useState<string[]>: the displayed move history
    pairs,             \* useState<MovePair[]>
    orientationWhite,  \* useState(true)
    status,            \* useState("")
    isGameOver,        \* useState(false)
    lastMove,          \* useState<{from, to} | null>
    boardSquares,      \* useMemo<BoardSquare[]>: the board snapshot shown
    lastOp,            \* the handler that ran last and the branch it took
    randomUsed         \* how many random moves have been drawn so far

vars == <<chess, selected, legalTargets, history, pairs, orientationWhite,
          status, isGameOver, lastMove, boardSquares, lastOp, randomUsed>>

(***************************************************************************)
(* Bounds of the exploration.                                              *)
(***************************************************************************)
\* Longest game explored, in plies.
MaxPly == 4
\* Random moves drawn per run (each draws from the full legal-move set).
MaxRandom == 1
\* Random moves are drawn from this ply on.
MinRandomPly == 3
\* Longest move history given to buildMovePairs on its own.
MaxHistory == 5
\* In the recorded games, random moves are drawn from this ply on ...
MinGameRandomPly == 8
\* ... and give a game of at most this many plies.
MaxGamePly == 9

(***************************************************************************)
(* Squares and pieces.                                                     *)
(***************************************************************************)
Files == 1..8
Ranks == 1..8
Squares == Files \X Ranks

null == [color |-> "-", type |-> "-"]
NoSquare == <<0, 0>>

P(c, t) == [color |-> c, type |-> t]

Other(c) == IF c = "w" THEN "b" ELSE "w"

OnBoard(s) == s[1] \in Files /\ s[2] \in Ranks

Shift(s, d, k) == <<s[1] + k * d[1], s[2] + k * d[2]>>

KnightOffsets == {<<1, 2>>, <<2, 1>>, <<2, -1>>, <<1, -2>>,
                  <<-1, -2>>, <<-2, -1>>, <<-2, 1>>, <<-1, 2>>}
BishopDirs == {<<1, 1>>, <<1, -1>>, <<-1, 1>>, <<-1, -1>>}
RookDirs == {<<1, 0>>, <<-1, 0>>, <<0, 1>>, <<0, -1>>}
KingOffsets == BishopDirs \cup RookDirs

\* Pawns of colour c advance by Forward(c) ranks per step.
Forward(c) == IF c = "w" THEN 1 ELSE -1
PawnStartRank(c) == IF c = "w" THEN 2 ELSE 7
PromotionRank(c) == IF c = "w" THEN 8 ELSE 1
BackRank(c) == IF c = "w" THEN 1 ELSE 8

BackRow == <<"r", "n", "b", "q", "k", "b", "n", "r">>

\* The standard initial position.
InitialBoard ==
    [s \in Squares |->
        CASE s[2] = 1 -> P("w", BackRow[s[1]])
          [] s[2] = 2 -> P("w", "p")
          [] s[2] = 7 -> P("b", "p")
          [] s[2] = 8 -> P("b", BackRow[s[1]])
          [] OTHER -> null]

AllRights == [w |-> [k |-> TRUE, q |-> TRUE], b |-> [k |-> TRUE, q |-> TRUE]]

\* A position: everything of the GameState but the history.  The kings'
\* squares are kept beside the board, as the engine keeps them.
InitialPosition ==
    [board |-> InitialBoard, turn |-> "w", castling |-> AllRights,
     kings |-> [w |-> <<5, 1>>, b |-> <<5, 8>>],
     epSquare |-> NoSquare, halfMoves |-> 0, moveNumber |-> 1]

\* new Chess() / chess.reset(): the initial position with an empty history.
NewChess == [pos |-> InitialPosition, hist |-> <<>>]

(***************************************************************************)
(* Attack detection.                                                       *)
(***************************************************************************)
\* The squares a sliding piece on s sees along d: up to and including the
\* first occupied square.
RayTargets(b, s, d) ==
    {Shift(s, d, k) : k \in {k \in 1..7 :
        /\ OnBoard(Shift(s, d, k))
        /\ \A j \in 1..(k - 1) : b[Shift(s, d, j)] = null}}

\* Whether some piece of colour by attacks square s on board b.
Attacked(b, by, s) ==
    \/ \E o \in KnightOffsets :
          OnBoard(Shift(s, o, 1)) /\ b[Shift(s, o, 1)] = P(by, "n")
    \/ \E o \in KingOffsets :
          OnBoard(Shift(s, o, 1)) /\ b[Shift(s, o, 1)] = P(by, "k")
    \/ \E df \in {-1, 1} :
          LET t == <<s[1] + df, s[2] - Forward(by)>>
          IN  OnBoard(t) /\ b[t] = P(by, "p")
    \/ \E d \in BishopDirs : \E t \in RayTargets(b, s, d) :
          b[t].color = by /\ b[t].type \in {"b", "q"}
    \/ \E d \in RookDirs : \E t \in RayTargets(b, s, d) :
          b[t].color = by /\ b[t].type \in {"r", "q"}

\* isKingAttacked: the king of colour c, on square k of board b, is attacked.
KingAttacked(b, c, k) == Attacked(b, Other(c), k)

(***************************************************************************)
(* Move generation.  A move is the verbose chess.js move: colour, from,    *)
(* to, the moving piece type, the captured type ("-" when none), the       *)
(* promotion type ("-" when none) and a flag: "n" normal, "b" double pawn  *)
(* push, "e" en passant, "c" capture, "k"/"q" castle king/queen side.      *)
(***************************************************************************)
PromotionTypes == {"n", "b", "r", "q"}

Mv(b, c, from, to, flag, promo) ==
    [color |-> c, from |-> from, to |-> to, piece |-> b[from].type,
     captured |-> IF flag = "e" THEN "p" ELSE b[to].type,
     promotion |-> promo, flags |-> flag]

\* A pawn move to square t: four moves on the last rank, one elsewhere.
PawnTo(b, c, s, t, flag) ==
    IF t[2] = PromotionRank(c)
    THEN {Mv(b, c, s, t, flag, pt) : pt \in PromotionTypes}
    ELSE {Mv(b, c, s, t, flag, "-")}

PawnMoves(pos, s) ==
    LET b == pos.board
        c == pos.turn
        t1 == <<s[1], s[2] + Forward(c)>>
        t2 == <<s[1], s[2] + 2 * Forward(c)>>
        single == IF OnBoard(t1) /\ b[t1] = null
                  THEN PawnTo(b, c, s, t1, "n") ELSE {}
        double == IF /\ s[2] = PawnStartRank(c)
                     /\ b[t1] = null
                     /\ b[t2] = null
                  THEN {Mv(b, c, s, t2, "b", "-")} ELSE {}
        takes == UNION {
            LET t == <<s[1] + df, s[2] + Forward(c)>>
            IN  IF ~OnBoard(t) THEN {}
                ELSE IF b[t].color = Other(c) THEN PawnTo(b, c, s, t, "c")
                ELSE IF t = pos.epSquare THEN {Mv(b, c, s, t, "e", "-")}
                ELSE {} : df \in {-1, 1}}
    IN  single \cup double \cup takes

\* A move of a non-pawn piece to t: onto an empty square or a capture.
StepTo(b, c, s, t) ==
    IF ~OnBoard(t) \/ b[t].color = c THEN {}
    ELSE {Mv(b, c, s, t, IF b[t] = null THEN "n" ELSE "c", "-")}

LeaperMoves(pos, s, offsets) ==
    UNION {StepTo(pos.board, pos.turn, s, Shift(s, o, 1)) : o \in offsets}

SliderMoves(pos, s, dirs) ==
    UNION {StepTo(pos.board, pos.turn, s, t) :
              t \in UNION {RayTargets(pos.board, s, d) : d \in dirs}}

\* Castling: the right is still held, the squares between king and rook are
\* empty, the king is not in check and neither passes through nor lands on
\* an attacked square.
CastlingMoves(pos, s) ==
    LET b == pos.board
        c == pos.turn
        r == BackRank(c)
        them == Other(c)
        kingside ==
            IF /\ pos.castling[c].k
               /\ b[<<6, r>>] = null /\ b[<<7, r>>] = null
               /\ ~Attacked(b, them, <<5, r>>)
               /\ ~Attacked(b, them, <<6, r>>)
               /\ ~Attacked(b, them, <<7, r>>)
            THEN {Mv(b, c, s, <<7, r>>, "k", "-")} ELSE {}
        queenside ==
            IF /\ pos.castling[c].q
               /\ b[<<4, r>>] = null /\ b[<<3, r>>] = null /\ b[<<2, r>>] = null
               /\ ~Attacked(b, them, <<5, r>>)
               /\ ~Attacked(b, them, <<4, r>>)
               /\ ~Attacked(b, them, <<3, r>>)
            THEN {Mv(b, c, s, <<3, r>>, "q", "-")} ELSE {}
    IN  IF s = <<5, r>> THEN kingside \cup queenside ELSE {}

\* The pseudo-legal moves of the piece on s: movement rules only.
PseudoMoves(pos, s) ==
    LET pc == pos.board[s]
    IN  IF pc.color # pos.turn THEN {}
        ELSE CASE pc.type = "p" -> PawnMoves(pos, s)
               [] pc.type = "n" -> LeaperMoves(pos, s, KnightOffsets)
               [] pc.type = "b" -> SliderMoves(pos, s, BishopDirs)
               [] pc.type = "r" -> SliderMoves(pos, s, RookDirs)
               [] pc.type = "q" -> SliderMoves(pos, s, BishopDirs \cup RookDirs)
               [] pc.type = "k" -> LeaperMoves(pos, s, KingOffsets)
                                      \cup CastlingMoves(pos, s)
               [] OTHER -> {}

(***************************************************************************)
(* Move application.                                                       *)
(***************************************************************************)
\* The board after move m: the piece moved (promoted), the en passant
\* victim removed, the rook hopped over the castling king.
BoardAfter(b, m) ==
    LET r == m.from[2]
        placed == IF m.promotion # "-" THEN P(m.color, m.promotion)
                  ELSE b[m.from]
        moved == [b EXCEPT ![m.from] = null, ![m.to] = placed]
    IN  CASE m.flags = "e" ->
                [moved EXCEPT ![<<m.to[1], m.from[2]>>] = null]
          [] m.flags = "k" ->
                [moved EXCEPT ![<<8, r>>] = null, ![<<6, r>>] = b[<<8, r>>]]
          [] m.flags = "q" ->
                [moved EXCEPT ![<<1, r>>] = null, ![<<4, r>>] = b[<<1, r>>]]
          [] OTHER -> moved

\* Castling rights after m: lost by a king move, by a rook leaving its
\* corner, and by a capture on the opponent's rook corner.
CastlingAfter(cr, m) ==
    LET us == m.color
        them == Other(us)
        mine == [k |-> /\ cr[us].k
                       /\ m.piece # "k"
                       /\ m.from # <<8, BackRank(us)>>,
                 q |-> /\ cr[us].q
                       /\ m.piece # "k"
                       /\ m.from # <<1, BackRank(us)>>]
        theirs == [k |-> cr[them].k /\ m.to # <<8, BackRank(them)>>,
                   q |-> cr[them].q /\ m.to # <<1, BackRank(them)>>]
    IN  [c \in {"w", "b"} |-> IF c = us THEN mine ELSE theirs]

\* The position after move m is applied.
ApplyMove(pos, m) ==
    [board |-> BoardAfter(pos.board, m),
     turn |-> Other(pos.turn),
     castling |-> CastlingAfter(pos.castling, m),
     kings |-> IF m.piece = "k" THEN [pos.kings EXCEPT ![m.color] = m.to]
               ELSE pos.kings,
     epSquare |-> IF m.flags = "b"
                  THEN <<m.from[1], m.from[2] + Forward(m.color)>>
                  ELSE NoSquare,
     halfMoves |-> IF m.piece = "p" \/ m.captured # "-" THEN 0
                   ELSE pos.halfMoves + 1,
     moveNumber |-> IF m.color = "b" THEN pos.moveNumber + 1
                    ELSE pos.moveNumber]

\* A pseudo-legal move is legal when it does not leave the mover's own king
\* in check.
Legal(pos, m) ==
    ~KingAttacked(BoardAfter(pos.board, m), pos.turn,
                  IF m.piece = "k" THEN m.to ELSE pos.kings[pos.turn])

\* chess.moves({square, verbose: true}): the legal moves of the piece on s.
MovesFrom(pos, s) == {m \in PseudoMoves(pos, s) : Legal(pos, m)}

\* chess.moves({verbose: true}): every legal move of the side to move.
Moves(pos) == UNION {MovesFrom(pos, s) : s \in Squares}

\* moves.length === 0: the side to move has no legal move.
NoMoves(pos) == \A s \in Squares : MovesFrom(pos, s) = {}

(***************************************************************************)
(* The engine's interface, as the component calls it on chessRef.current.  *)
(* The GameState is [pos, hist]: the current position and, per applied     *)
(* move, the move with the position it was made in.                        *)
(***************************************************************************)
fileLabels == <<"a", "b", "c", "d", "e", "f", "g", "h">>
rankLabels == <<"1", "2", "3", "4", "5", "6", "7", "8">>

\* `${file}${rank}`: the name of a square.
SquareName(s) == fileLabels[s[1]] \o rankLabels[s[2]]

\* The notation of a move in the history.  chess.js renders standard
\* algebraic notation; the rendering here is the coordinate form (from, to,
\* promotion letter), which like SAN names exactly one legal move of the
\* position it was made in.
Notation(m) ==
    SquareName(m.from) \o SquareName(m.to)
        \o (IF m.promotion = "-" THEN "" ELSE m.promotion)

\* chess.turn()
Turn(ch) == ch.pos.turn

\* chess.get(square)
Get(ch, s) == ch.pos.board[s]

\* chess.history(): the notation of each applied move, oldest first.
History(ch) == [i \in 1..Len(ch.hist) |-> Notation(ch.hist[i].move)]

\* The legal moves chess.move({from, to, promotion}) can resolve to: those
\* with these endpoints whose promotion, if any, is the requested one.
MatchingMoves(ch, from, to, promo) ==
    {m \in MovesFrom(ch.pos, from) :
        m.to = to /\ (m.promotion = "-" \/ m.promotion = promo)}

\* The GameState after move m is applied and recorded.
MakeMove(ch, m) ==
    [pos |-> ApplyMove(ch.pos, m),
     hist |-> Append(ch.hist, [move |-> m, pos |-> ch.pos])]

\* The GameState after chess.undo(): the prior snapshot restored.  With an
\* empty history it is unchanged (and undo() returns null).
UndoMoveState(ch) ==
    IF ch.hist = <<>> THEN ch
    ELSE [pos |-> ch.hist[Len(ch.hist)].pos,
          hist |-> SubSeq(ch.hist, 1, Len(ch.hist) - 1)]

\* chess.inCheck()
InCheck(ch) ==
    KingAttacked(ch.pos.board, ch.pos.turn, ch.pos.kings[ch.pos.turn])

\* chess.isCheckmate()
IsCheckmate(ch) == InCheck(ch) /\ NoMoves(ch.pos)

\* chess.isStalemate()
IsStalemate(ch) == ~InCheck(ch) /\ NoMoves(ch.pos)

\* Whether a square is a dark one (a1 is dark).
DarkSquare(s) == (s[1] + s[2]) % 2 = 0

\* chess.isInsufficientMaterial(): king against king, king and one minor
\* piece against king, or kings with bishops all on one square colour.
IsInsufficientMaterial(ch) ==
    LET b == ch.pos.board
        occupied == {s \in Squares : b[s] # null}
        bishops == {s \in occupied : b[s].type = "b"}
        knights == {s \in occupied : b[s].type = "n"}
        n == Cardinality(occupied)
    IN  \/ n = 2
        \/ n = 3 /\ (Cardinality(bishops) = 1 \/ Cardinality(knights) = 1)
        \/ /\ n = Cardinality(bishops) + 2
           /\ \/ \A s \in bishops : DarkSquare(s)
              \/ \A s \in bishops : ~DarkSquare(s)

\* The position signature: board, side to move, castling rights and en
\* passant target.
Signature(pos) == <<pos.board, pos.turn, pos.castling, pos.epSquare>>

\* How often the current position's signature has occurred in the game.
PositionCount(ch) ==
    1 + Cardinality({i \in 1..Len(ch.hist) :
                        Signature(ch.hist[i].pos) = Signature(ch.pos)})

\* chess.isThreefoldRepetition()
IsThreefoldRepetition(ch) == PositionCount(ch) >= 3

\* chess.isDraw(): fifty-move rule, stalemate, insufficient material or
\* threefold repetition.
IsDraw(ch) ==
    \/ ch.pos.halfMoves >= 100
    \/ IsStalemate(ch)
    \/ IsInsufficientMaterial(ch)
    \/ IsThreefoldRepetition(ch)

\* chess.isGameOver()
IsGameOver(ch) == IsCheckmate(ch) \/ IsStalemate(ch) \/ IsDraw(ch)

(***************************************************************************)
(* The controller: the ChessGame component's state and handlers.           *)
(***************************************************************************)
\* The absent black move of a last, half-played pair (history[i + 1] past
\* the end of the array).
undefined == "undefined"

\* setLastMove(null)
NoLastMove == [from |-> NoSquare, to |-> NoSquare]

\* A faulty PairsFrom: the loop index (i + 1) taken for the pair's number,
\* so that pairs are numbered by half-moves.
RECURSIVE PairsFromNumberedByPly(_, _)
PairsFromNumberedByPly(h, i) ==
    IF i < Len(h)
    THEN <<[ply |-> i + 1,
            white |-> h[i + 1],
            black |-> IF i + 2 <= Len(h) THEN h[i + 2] ELSE undefined]>>
            \o PairsFromNumberedByPly(h, i + 2)
    ELSE <<>>

\* buildMovePairs' loop from index i (0-based, as in the source).
RECURSIVE PairsFrom(_, _)
PairsFrom(h, i) ==
    IF i < Len(h)
    THEN <<[ply |-> (i \div 2) + 1,
            white |-> h[i + 1],
            black |-> IF i + 2 <= Len(h) THEN h[i + 2] ELSE undefined]>>
            \o PairsFrom(h, i + 2)
    ELSE <<>>

buildMovePairs(h) == PairsFrom(h, 0)

ColorName(c) == IF c = "w" THEN "White" ELSE "Black"

\* A faulty StatusText: the side to move, which is the mated side, is named
\* as the winner.
StatusTextMoverWins(ch, old) ==
    IF IsGameOver(ch)
    THEN IF IsCheckmate(ch)
         THEN "Checkmate * " \o ColorName(Turn(ch)) \o " wins"
         ELSE IF IsStalemate(ch) THEN "Draw * Stalemate"
         ELSE IF IsInsufficientMaterial(ch) THEN "Draw * Insufficient material"
         ELSE IF IsThreefoldRepetition(ch) THEN "Draw * Threefold repetition"
         ELSE IF IsDraw(ch) THEN "Draw"
         ELSE old
    ELSE IF InCheck(ch)
         THEN ColorName(Turn(ch)) \o " to move * Check"
         ELSE ColorName(Turn(ch)) \o " to move"

\* The status updateDerivedState sets for engine state ch; old is the
\* status kept when no branch sets one.  The source's bullet (U+2022) is
\* written * here.
StatusText(ch, old) ==
    IF IsGameOver(ch)
    THEN IF IsCheckmate(ch)
         THEN "Checkmate * " \o ColorName(Other(Turn(ch))) \o " wins"
         ELSE IF IsStalemate(ch) THEN "Draw * Stalemate"
         ELSE IF IsInsufficientMaterial(ch) THEN "Draw * Insufficient material"
         ELSE IF IsThreefoldRepetition(ch) THEN "Draw * Threefold repetition"
         ELSE IF IsDraw(ch) THEN "Draw"
         ELSE old
    ELSE IF InCheck(ch)
         THEN ColorName(Turn(ch)) \o " to move * Check"
         ELSE ColorName(Turn(ch)) \o " to move"

\* updateDerivedState(), reading the engine state ch that chessRef.current
\* holds when it runs.
updateDerivedState(ch) ==
    /\ history' = History(ch)
    /\ pairs' = buildMovePairs(History(ch))
    /\ isGameOver' = IsGameOver(ch)
    /\ status' = StatusText(ch, status)

\* A faulty findKingSquare: the rank named rankIndex + 1 instead of
\* 8 - rankIndex, as if chess.board() began with rank 1.
findKingSquareRankFromBottom(ch, color) ==
    LET scan == [n \in 1..64 |-> <<((n - 1) % 8) + 1, 8 - ((n - 1) \div 8)>>]
        hits == {n \in 1..64 : Get(ch, scan[n]) = P(color, "k")}
        first == CHOOSE n \in hits : \A k \in hits : n <= k
    IN  IF hits = {} THEN NoSquare
        ELSE <<scan[first][1], ((first - 1) \div 8) + 1>>

\* findKingSquare(chess, color): chess.board() scanned from rank 8 down,
\* each rank from file a to h; the first square holding color's king, or
\* null when there is none.
findKingSquare(ch, color) ==
    LET scan == [n \in 1..64 |-> <<((n - 1) % 8) + 1, 8 - ((n - 1) \div 8)>>]
        hits == {n \in 1..64 : Get(ch, scan[n]) = P(color, "k")}
    IN  IF hits = {} THEN NoSquare
        ELSE scan[CHOOSE n \in hits : \A k \in hits : n <= k]

\* The value the boardSquares memo computes from the engine state and its
\* four dependencies: the 64 squares in display order, rank by rank from
\* the top of the screen, each rank from the left.
ComputeBoardSquares(ch, sel, targets, white, last) ==
    LET ranks == [i \in 1..8 |-> IF white THEN 9 - i ELSE i]
        files == [i \in 1..8 |-> IF white THEN i ELSE 9 - i]
        checkSquare == IF InCheck(ch) THEN findKingSquare(ch, Turn(ch))
                       ELSE NoSquare
    IN  [n \in 1..64 |->
            LET rankIdx == (n - 1) \div 8
                fileIdx == (n - 1) % 8
                square == <<files[fileIdx + 1], ranks[rankIdx + 1]>>
            IN  [square |-> square,
                 piece |-> Get(ch, square),
                 isDark |-> (rankIdx + fileIdx) % 2 = 1,
                 isSelected |-> sel = square,
                 isLegalTarget |-> square \in targets,
                 isCheck |-> checkSquare = square,
                 isLastMove |-> last.from = square \/ last.to = square]]

\* The render after a handler that set one of the memo's dependencies
\* (selected, legalTargets, orientationWhite, lastMove) to a new value or a
\* new array or object: the memo is recomputed on the state the handler
\* left.
render ==
    boardSquares' = ComputeBoardSquares(chess', selected', legalTargets',
                                        orientationWhite', lastMove')

Op(name, outcome) == [op |-> name, outcome |-> outcome]

\* A faulty TargetsOf: chess.moves() called without the square, so that the
\* targets are the destinations of every legal move of the side to move.
TargetsOfAnyPiece(ch, square) == {m.to : m \in Moves(ch.pos)}

\* moves.map((move) => move.to) over chess.moves({square, verbose: true}):
\* the destinations of the legal moves of the piece on square.
TargetsOf(ch, square) == {m.to : m \in MovesFrom(ch.pos, square)}

\* A faulty deselectSame: setLegalTargets([]) left out.
deselectSameKeepsTargets ==
    /\ selected' = NoSquare
    /\ lastOp' = Op("tap", "deselected")
    /\ UNCHANGED <<chess, legalTargets, history, pairs, orientationWhite,
                   status, isGameOver, lastMove, randomUsed>>
    /\ render

\* handleSquareSelect, the tap on the selected square itself: deselect.
deselectSame ==
    /\ selected' = NoSquare
    /\ legalTargets' = {}
    /\ lastOp' = Op("tap", "deselected")
    /\ UNCHANGED <<chess, history, pairs, orientationWhite, status,
                   isGameOver, lastMove, randomUsed>>
    /\ render

\* A faulty selectPiece: the new targets are added to the shown ones
\* instead of replacing them.
selectPieceAddsTargets(square) ==
    /\ selected' = square
    /\ legalTargets' = legalTargets \cup TargetsOf(chess, square)
    /\ lastOp' = Op("tap", IF selected = NoSquare THEN "selected"
                           ELSE "reselected")
    /\ UNCHANGED <<chess, history, pairs, orientationWhite, status,
                   isGameOver, lastMove, randomUsed>>
    /\ render

\* handleSquareSelect, the tap on a piece of the side to move: select it and
\* show its targets.
selectPiece(square) ==
    /\ selected' = square
    /\ legalTargets' = TargetsOf(chess, square)
    /\ lastOp' = Op("tap", IF selected = NoSquare THEN "selected"
                           ELSE "reselected")
    /\ UNCHANGED <<chess, history, pairs, orientationWhite, status,
                   isGameOver, lastMove, randomUsed>>
    /\ render

\* A faulty commitMove: setLastMove left out.
commitMoveKeepsMarker(attemptedMove) ==
    /\ chess' = MakeMove(chess, attemptedMove)
    /\ selected' = NoSquare
    /\ legalTargets' = {}
    /\ updateDerivedState(chess')
    /\ lastOp' = Op("tap", "moved")
    /\ UNCHANGED <<lastMove, orientationWhite, randomUsed>>
    /\ render

\* handleSquareSelect, chess.move() returned the applied move.
commitMove(attemptedMove) ==
    /\ chess' = MakeMove(chess, attemptedMove)
    /\ selected' = NoSquare
    /\ legalTargets' = {}
    /\ lastMove' = [from |-> attemptedMove.from, to |-> attemptedMove.to]
    /\ updateDerivedState(chess')
    /\ lastOp' = Op("tap", "moved")
    /\ UNCHANGED <<orientationWhite, randomUsed>>
    /\ render

\* A faulty deselectFallThrough: the selection survives a rejected attempt.
deselectFallThroughKeepsSelection ==
    /\ lastOp' = Op("tap", IF selected = NoSquare THEN "ignored"
                           ELSE "rejected")
    /\ UNCHANGED <<chess, selected, legalTargets, history, pairs,
                   orientationWhite, status, isGameOver, lastMove,
                   randomUsed>>
    /\ render

\* A faulty deselectFallThrough: setLegalTargets([]) left out.
deselectFallThroughKeepsTargets ==
    /\ selected' = NoSquare
    /\ lastOp' = Op("tap", IF selected = NoSquare THEN "ignored"
                           ELSE "rejected")
    /\ UNCHANGED <<chess, legalTargets, history, pairs, orientationWhite,
                   status, isGameOver, lastMove, randomUsed>>
    /\ render

\* handleSquareSelect, the last two statements: nothing was selected, or
\* the attempted move was not applied.
deselectFallThrough ==
    /\ selected' = NoSquare
    /\ legalTargets' = {}
    /\ lastOp' = Op("tap", IF selected = NoSquare THEN "ignored"
                           ELSE "rejected")
    /\ UNCHANGED <<chess, history, pairs, orientationWhite, status,
                   isGameOver, lastMove, randomUsed>>
    /\ render

\* A faulty handleSquareSelect: chess.move() is asked for promotion "n".
handleSquareSelectPromotesToKnight(square) ==
    LET piece == Get(chess, square)
        attempted == IF selected = NoSquare THEN {}
                     ELSE MatchingMoves(chess, selected, square, "n")
    IN  IF selected # NoSquare /\ selected = square
        THEN deselectSame
        ELSE IF piece # null /\ piece.color = Turn(chess)
        THEN selectPiece(square)
        ELSE IF attempted # {}
        THEN \E attemptedMove \in attempted : commitMove(attemptedMove)
        ELSE deselectFallThrough

\* A faulty handleSquareSelect: the colour test of the tapped piece left
\* out, so that a piece of either side is selected.
handleSquareSelectAnyColour(square) ==
    LET piece == Get(chess, square)
        attempted == IF selected = NoSquare THEN {}
                     ELSE MatchingMoves(chess, selected, square, "q")
    IN  IF selected # NoSquare /\ selected = square
        THEN deselectSame
        ELSE IF piece # null
        THEN selectPiece(square)
        ELSE IF attempted # {}
        THEN \E attemptedMove \in attempted : commitMove(attemptedMove)
        ELSE deselectFallThrough

\* handleSquareSelect(square): a tap on a board square.  chess.move() is
\* given the selection, the tapped square and promotion "q"; it yields the
\* applied move, or nothing when no legal move has these endpoints.
handleSquareSelect(square) ==
    LET piece == Get(chess, square)
        attempted == IF selected = NoSquare THEN {}
                     ELSE MatchingMoves(chess, selected, square, "q")
    IN  IF selected # NoSquare /\ selected = square
        THEN deselectSame
        ELSE IF piece # null /\ piece.color = Turn(chess)
        THEN selectPiece(square)
        ELSE IF attempted # {}
        THEN \E attemptedMove \in attempted : commitMove(attemptedMove)
        ELSE deselectFallThrough

\* A faulty resetGame: setLastMove(null) left out.
resetGameKeepsMarker ==
    /\ chess' = NewChess
    /\ selected' = NoSquare
    /\ legalTargets' = {}
    /\ updateDerivedState(chess')
    /\ lastOp' = Op("reset", "reset")
    /\ UNCHANGED <<lastMove, orientationWhite, randomUsed>>
    /\ render

\* A faulty resetGame: setSelected(null) left out.
resetGameKeepsSelection ==
    /\ chess' = NewChess
    /\ legalTargets' = {}
    /\ lastMove' = NoLastMove
    /\ updateDerivedState(chess')
    /\ lastOp' = Op("reset", "reset")
    /\ UNCHANGED <<selected, orientationWhite, randomUsed>>
    /\ render

\* resetGame()
resetGame ==
    /\ chess' = NewChess
    /\ selected' = NoSquare
    /\ legalTargets' = {}
    /\ lastMove' = NoLastMove
    /\ updateDerivedState(chess')
    /\ lastOp' = Op("reset", "reset")
    /\ UNCHANGED <<orientationWhite, randomUsed>>
    /\ render

\* A faulty undoMove: the selection is not cleared after a move is undone.
undoMoveKeepsSelection ==
    IF chess.hist # <<>>
    THEN LET undone == chess.hist[Len(chess.hist)].move
         IN  /\ chess' = UndoMoveState(chess)
             /\ lastMove' = [from |-> undone.from, to |-> undone.to]
             /\ updateDerivedState(chess')
             /\ lastOp' = Op("undo", "undone")
             /\ UNCHANGED <<selected, legalTargets, orientationWhite,
                            randomUsed>>
             /\ render
    ELSE /\ lastOp' = Op("undo", "nothing")
         /\ UNCHANGED <<chess, selected, legalTargets, history, pairs,
                        orientationWhite, status, isGameOver, lastMove,
                        boardSquares, randomUsed>>

\* A faulty undoMove: updateDerivedState() left out after the undo.
undoMoveKeepsDerivedState ==
    IF chess.hist # <<>>
    THEN LET undone == chess.hist[Len(chess.hist)].move
         IN  /\ chess' = UndoMoveState(chess)
             /\ selected' = NoSquare
             /\ legalTargets' = {}
             /\ lastMove' = [from |-> undone.from, to |-> undone.to]
             /\ lastOp' = Op("undo", "undone")
             /\ UNCHANGED <<history, pairs, status, isGameOver,
                            orientationWhite, randomUsed>>
             /\ render
    ELSE /\ lastOp' = Op("undo", "nothing")
         /\ UNCHANGED <<chess, selected, legalTargets, history, pairs,
                        orientationWhite, status, isGameOver, lastMove,
                        boardSquares, randomUsed>>

\* A faulty undoMove: chess.undo() called twice.
undoMoveTwice ==
    IF chess.hist # <<>>
    THEN LET undone == chess.hist[Len(chess.hist)].move
         IN  /\ chess' = UndoMoveState(UndoMoveState(chess))
             /\ selected' = NoSquare
             /\ legalTargets' = {}
             /\ lastMove' = [from |-> undone.from, to |-> undone.to]
             /\ updateDerivedState(chess')
             /\ lastOp' = Op("undo", "undone")
             /\ UNCHANGED <<orientationWhite, randomUsed>>
             /\ render
    ELSE /\ lastOp' = Op("undo", "nothing")
         /\ UNCHANGED <<chess, selected, legalTargets, history, pairs,
                        orientationWhite, status, isGameOver, lastMove,
                        boardSquares, randomUsed>>

\* undoMove()
undoMove ==
    IF chess.hist # <<>>
    THEN LET undone == chess.hist[Len(chess.hist)].move
         IN  /\ chess' = UndoMoveState(chess)
             /\ selected' = NoSquare
             /\ legalTargets' = {}
             /\ lastMove' = [from |-> undone.from, to |-> undone.to]
             /\ updateDerivedState(chess')
             /\ lastOp' = Op("undo", "undone")
             /\ UNCHANGED <<orientationWhite, randomUsed>>
             /\ render
    ELSE /\ lastOp' = Op("undo", "nothing")
         /\ UNCHANGED <<chess, selected, legalTargets, history, pairs,
                        orientationWhite, status, isGameOver, lastMove,
                        boardSquares, randomUsed>>

\* A faulty handleRandomMove: setSelected(null) and setLegalTargets([])
\* left out after the move.
handleRandomMoveKeepsSelection ==
    IF NoMoves(chess.pos)
    THEN /\ updateDerivedState(chess)
         /\ lastOp' = Op("random", "nothing")
         /\ UNCHANGED <<chess, selected, legalTargets, orientationWhite,
                        lastMove, boardSquares, randomUsed>>
    ELSE /\ \E randomMove \in Moves(chess.pos) :
               /\ chess' = MakeMove(chess, randomMove)
               /\ lastMove' = [from |-> randomMove.from,
                               to |-> randomMove.to]
         /\ updateDerivedState(chess')
         /\ lastOp' = Op("random", "moved")
         /\ randomUsed' = randomUsed + 1
         /\ UNCHANGED <<selected, legalTargets, orientationWhite>>
         /\ render

\* handleRandomMove(): Math.random picks any one of the legal moves.
handleRandomMove ==
    IF NoMoves(chess.pos)
    THEN /\ updateDerivedState(chess)
         /\ lastOp' = Op("random", "nothing")
         /\ UNCHANGED <<chess, selected, legalTargets, orientationWhite,
                        lastMove, boardSquares, randomUsed>>
    ELSE /\ \E randomMove \in Moves(chess.pos) :
               /\ chess' = MakeMove(chess, randomMove)
               /\ lastMove' = [from |-> randomMove.from,
                               to |-> randomMove.to]
         /\ selected' = NoSquare
         /\ legalTargets' = {}
         /\ updateDerivedState(chess')
         /\ lastOp' = Op("random", "moved")
         /\ randomUsed' = randomUsed + 1
         /\ UNCHANGED orientationWhite
         /\ render

\* A faulty flipOrientation: the flip also drops the selection.
flipOrientationClearsSelection ==
    /\ orientationWhite' = ~orientationWhite
    /\ selected' = NoSquare
    /\ legalTargets' = {}
    /\ lastOp' = Op("flip", "flipped")
    /\ UNCHANGED <<chess, history, pairs, status, isGameOver, lastMove,
                   randomUsed>>
    /\ render

\* The "Flip board" button: setOrientationWhite((prev) => !prev).
flipOrientation ==
    /\ orientationWhite' = ~orientationWhite
    /\ lastOp' = Op("flip", "flipped")
    /\ UNCHANGED <<chess, selected, legalTargets, history, pairs, status,
                   isGameOver, lastMove, randomUsed>>
    /\ render

(***************************************************************************)
(* The squares tapped in the exploration: the squares of the shortest      *)
(* mate (f2-f3 e7-e5 g2-g4 Qd8-h4#), which give selections, re-selections, *)
(* moves, captures, rejected attempts and a finished game.                 *)
(***************************************************************************)
TapSquares == {<<6, 2>>, <<6, 3>>, <<5, 7>>, <<5, 5>>,
               <<7, 2>>, <<7, 4>>, <<4, 8>>, <<8, 4>>}

\* A click on the button of one of the given squares, in a game explored
\* up to maxPly plies.
TapOn(squares, maxPly) ==
    \E square \in squares :
        handleSquareSelect(square) /\ Len(chess'.hist) <= maxPly

\* handleRandomMove in a game explored up to maxPly plies, with random
\* moves drawn from ply minPly on and MaxRandom of them per run.
RandomWithin(minPly, maxPly) ==
    /\ IF NoMoves(chess.pos) THEN TRUE
       ELSE /\ randomUsed < MaxRandom
            /\ Len(chess.hist) >= minPly
            /\ Len(chess.hist) < maxPly
    /\ handleRandomMove

\* A click on a board square's button.
Tap == TapOn(TapSquares, MaxPly)

\* The Undo button, disabled while the displayed history is empty.
UndoButton == history # <<>> /\ undoMove

\* The Restart button.
RestartButton == resetGame

\* The Random move button, disabled once the game is over.
RandomButton == ~isGameOver /\ RandomWithin(MinRandomPly, MaxPly)

\* The Flip board button.
FlipButton == flipOrientation

\* The state once the component is mounted and its effect has run
\* updateDerivedState on the new engine.
Init ==
    /\ chess = NewChess
    /\ selected = NoSquare
    /\ legalTargets = {}
    /\ history = History(NewChess)
    /\ pairs = buildMovePairs(History(NewChess))
    /\ orientationWhite = TRUE
    /\ status = StatusText(NewChess, "")
    /\ isGameOver = IsGameOver(NewChess)
    /\ lastMove = NoLastMove
    /\ boardSquares = ComputeBoardSquares(NewChess, NoSquare, {}, TRUE,
                                          NoLastMove)
    /\ lastOp = [op |-> "mount", outcome |-> "mounted"]
    /\ randomUsed = 0

\* The component as rendered: every handler behind its control.
Next == Tap \/ UndoButton \/ RestartButton \/ RandomButton \/ FlipButton

Spec == Init /\ [][Next]_vars

\* The controller's commands invoked directly, whatever the buttons'
\* disabled state.
UndoCommand == undoMove

RandomCommand == RandomWithin(MinRandomPly, MaxPly)

NextCmd == Tap \/ UndoCommand \/ RestartButton \/ RandomCommand \/ FlipButton

SpecCmd == Init /\ [][NextCmd]_vars

(***************************************************************************)
(* The component played along recorded games.  The squares tapped are the  *)
(* two squares of the next move of each recorded game the moves made so    *)
(* far follow; the buttons are as rendered.  The games reach a mate, a     *)
(* check, a stalemate, a threefold repetition and a promotion.             *)
(***************************************************************************)
\* The shortest mate: f2f3 e7e5 g2g4 d8h4#
FoolsMate ==
    <<<<<<6, 2>>, <<6, 3>>>>, <<<<5, 7>>, <<5, 5>>>>,
      <<<<7, 2>>, <<7, 4>>>>, <<<<4, 8>>, <<8, 4>>>>>>

\* The knights out and back until the initial position has occurred three
\* times (after ply 8), and one move more:
\* g1f3 g8f6 f3g1 f6g8 g1f3 g8f6 f3g1 f6g8 g1f3
KnightShuffle ==
    <<<<<<7, 1>>, <<6, 3>>>>, <<<<7, 8>>, <<6, 6>>>>,
      <<<<6, 3>>, <<7, 1>>>>, <<<<6, 6>>, <<7, 8>>>>,
      <<<<7, 1>>, <<6, 3>>>>, <<<<7, 8>>, <<6, 6>>>>,
      <<<<6, 3>>, <<7, 1>>>>, <<<<6, 6>>, <<7, 8>>>>,
      <<<<7, 1>>, <<6, 3>>>>>>

\* A pawn brought to its last rank at ply 9:
\* h2h4 g7g5 h4g5 h7h6 g5h6 g8f6 h6h7 f6g8 h7g8
PawnToLastRank ==
    <<<<<<8, 2>>, <<8, 4>>>>, <<<<7, 7>>, <<7, 5>>>>,
      <<<<8, 4>>, <<7, 5>>>>, <<<<8, 7>>, <<8, 6>>>>,
      <<<<7, 5>>, <<8, 6>>>>, <<<<7, 8>>, <<6, 6>>>>,
      <<<<8, 6>>, <<8, 7>>>>, <<<<6, 6>>, <<7, 8>>>>,
      <<<<8, 7>>, <<7, 8>>>>>>

\* The shortest stalemate (S. Loyd), with a check at ply 11:
\* e2e3 a7a5 d1h5 a8a6 h5a5 h7h5 h2h4 a6h6 a5c7 f7f6 c7d7+ e8f7 d7b7 d8d3
\* b7b8 d3h7 b8c8 f7g6 c8e6
LoydStalemate ==
    <<<<<<5, 2>>, <<5, 3>>>>, <<<<1, 7>>, <<1, 5>>>>,
      <<<<4, 1>>, <<8, 5>>>>, <<<<1, 8>>, <<1, 6>>>>,
      <<<<8, 5>>, <<1, 5>>>>, <<<<8, 7>>, <<8, 5>>>>,
      <<<<8, 2>>, <<8, 4>>>>, <<<<1, 6>>, <<8, 6>>>>,
      <<<<1, 5>>, <<3, 7>>>>, <<<<6, 7>>, <<6, 6>>>>,
      <<<<3, 7>>, <<4, 7>>>>, <<<<5, 8>>, <<6, 7>>>>,
      <<<<4, 7>>, <<2, 7>>>>, <<<<4, 8>>, <<4, 3>>>>,
      <<<<2, 7>>, <<2, 8>>>>, <<<<4, 3>>, <<8, 7>>>>,
      <<<<2, 8>>, <<3, 8>>>>, <<<<6, 7>>, <<7, 6>>>>,
      <<<<3, 8>>, <<5, 6>>>>>>

Games == {FoolsMate, KnightShuffle, PawnToLastRank, LoydStalemate}

\* The moves made so far are the first moves of game g, which has a next
\* move.
Follows(g, ch) ==
    /\ Len(g) > Len(ch.hist)
    /\ \A i \in 1..Len(ch.hist) :
          /\ ch.hist[i].move.from = g[i][1]
          /\ ch.hist[i].move.to = g[i][2]

\* The two squares of the next move of each of the games that the moves
\* made so far follow.
NextSquares(games, ch) ==
    UNION {{g[Len(ch.hist) + 1][1], g[Len(ch.hist) + 1][2]} :
              g \in {gg \in games : Follows(gg, ch)}}

GameSquares(ch) == NextSquares(Games, ch)

\* A click on a board square's button, along the recorded games.
TapGame == \E square \in GameSquares(chess) : handleSquareSelect(square)

\* The Random move button, disabled once the game is over.
RandomGame == ~isGameOver /\ RandomWithin(MinGameRandomPly, MaxGamePly)

NextGames ==
    TapGame \/ UndoButton \/ RestartButton \/ RandomGame \/ FlipButton

SpecGames == Init /\ [][NextGames]_vars

(***************************************************************************)
(* The same with two long games added, which end in the two draws the      *)
(* short games do not reach: insufficient material and the fifty-move      *)
(* rule.                                                                   *)
(***************************************************************************)
\* A game of captures that leaves the two kings alone after ply 34:
\* d2d4 h7h6 c1h6 e7e5 h6g7 e5d4 d1d4 h8h2 d4a7 h2g2 a7b8 a8a2 b8c7 a2b2
\* g7f8 b2b1 a1b1 e8f8 c7c8 d8c8 b1b7 c8c2 b7d7 c2e2 e1e2 g2g1 d7f7 f8f7
\* h1h8 g1f1 h8g8 f1f2 e2f2 f7g8
BareKings ==
    <<<<<<4, 2>>, <<4, 4>>>>, <<<<8, 7>>, <<8, 6>>>>,
      <<<<3, 1>>, <<8, 6>>>>, <<<<5, 7>>, <<5, 5>>>>,
      <<<<8, 6>>, <<7, 7>>>>, <<<<5, 5>>, <<4, 4>>>>,
      <<<<4, 1>>, <<4, 4>>>>, <<<<8, 8>>, <<8, 2>>>>,
      <<<<4, 4>>, <<1, 7>>>>, <<<<8, 2>>, <<7, 2>>>>,
      <<<<1, 7>>, <<2, 8>>>>, <<<<1, 8>>, <<1, 2>>>>,
      <<<<2, 8>>, <<3, 7>>>>, <<<<1, 2>>, <<2, 2>>>>,
      <<<<7, 7>>, <<6, 8>>>>, <<<<2, 2>>, <<2, 1>>>>,
      <<<<1, 1>>, <<2, 1>>>>, <<<<5, 8>>, <<6, 8>>>>,
      <<<<3, 7>>, <<3, 8>>>>, <<<<4, 8>>, <<3, 8>>>>,
      <<<<2, 1>>, <<2, 7>>>>, <<<<3, 8>>, <<3, 2>>>>,
      <<<<2, 7>>, <<4, 7>>>>, <<<<3, 2>>, <<5, 2>>>>,
      <<<<5, 1>>, <<5, 2>>>>, <<<<7, 2>>, <<7, 1>>>>,
      <<<<4, 7>>, <<6, 7>>>>, <<<<6, 8>>, <<6, 7>>>>,
      <<<<8, 1>>, <<8, 8>>>>, <<<<7, 1>>, <<6, 1>>>>,
      <<<<8, 8>>, <<7, 8>>>>, <<<<6, 1>>, <<6, 2>>>>,
      <<<<5, 2>>, <<6, 2>>>>, <<<<6, 7>>, <<7, 8>>>>>>

\* A hundred plies of knight moves, none a capture and no position
\* occurring twice: the fifty-move draw after ply 100:
\* g1f3 b8c6 f3h4 g8h6 h4g6 c6a5 g6f4 h6g4 f4d5 a5c6 b1c3 g4e3 c3b5 e3g4
\* d5c3 g4h6 b5a3 c6a5 c3d5 a5c6 a3b5 c6b4 b5c3 h6f5 c3b5 b4c6 d5c3 c6a5
\* c3b1 a5c4 b5d4 f5h6 d4b5 h6g4 b5a3 c4e3 a3c4 e3d5 b1a3 d5b4 a3b1 b4a6
\* b1a3 g4e3 c4a5 a6b4 a5c4 b4c6 c4b6 c6b8 a3b1 e3f5 b6c4 f5h6 c4e5 b8a6
\* e5g6 a6b4 g6f4 b4a6 b1a3 a6b8 f4d3 h6g4 a3b5 g4h6 d3b4 h6g4 b5c3 g4e3
\* c3a4 e3g4 a4c5 g4h6 b4d3 h6g8 c5a4 b8a6 d3c5 g8h6 c5d3 a6b4 d3c5 b4d5
\* c5a6 d5f6 a6b8 h6g4 a4c5 f6g8 c5b3 g4e5 b3d4 g8f6 d4c6 f6d5 b8a6 e5g6
\* a6b4 d5f6
HundredPlies ==
    <<<<<<7, 1>>, <<6, 3>>>>, <<<<2, 8>>, <<3, 6>>>>,
      <<<<6, 3>>, <<8, 4>>>>, <<<<7, 8>>, <<8, 6>>>>,
      <<<<8, 4>>, <<7, 6>>>>, <<<<3, 6>>, <<1, 5>>>>,
      <<<<7, 6>>, <<6, 4>>>>, <<<<8, 6>>, <<7, 4>>>>,
      <<<<6, 4>>, <<4, 5>>>>, <<<<1, 5>>, <<3, 6>>>>,
      <<<<2, 1>>, <<3, 3>>>>, <<<<7, 4>>, <<5, 3>>>>,
      <<<<3, 3>>, <<2, 5>>>>, <<<<5, 3>>, <<7, 4>>>>,
      <<<<4, 5>>, <<3, 3>>>>, <<<<7, 4>>, <<8, 6>>>>,
      <<<<2, 5>>, <<1, 3>>>>, <<<<3, 6>>, <<1, 5>>>>,
      <<<<3, 3>>, <<4, 5>>>>, <<<<1, 5>>, <<3, 6>>>>,
      <<<<1, 3>>, <<2, 5>>>>, <<<<3, 6>>, <<2, 4>>>>,
      <<<<2, 5>>, <<3, 3>>>>, <<<<8, 6>>, <<6, 5>>>>,
      <<<<3, 3>>, <<2, 5>>>>, <<<<2, 4>>, <<3, 6>>>>,
      <<<<4, 5>>, <<3, 3>>>>, <<<<3, 6>>, <<1, 5>>>>,
      <<<<3, 3>>, <<2, 1>>>>, <<<<1, 5>>, <<3, 4>>>>,
      <<<<2, 5>>, <<4, 4>>>>, <<<<6, 5>>, <<8, 6>>>>,
      <<<<4, 4>>, <<2, 5>>>>, <<<<8, 6>>, <<7, 4>>>>,
      <<<<2, 5>>, <<1, 3>>>>, <<<<3, 4>>, <<5, 3>>>>,
      <<<<1, 3>>, <<3, 4>>>>, <<<<5, 3>>, <<4, 5>>>>,
      <<<<2, 1>>, <<1, 3>>>>, <<<<4, 5>>, <<2, 4>>>>,
      <<<<1, 3>>, <<2, 1>>>>, <<<<2, 4>>, <<1, 6>>>>,
      <<<<2, 1>>, <<1, 3>>>>, <<<<7, 4>>, <<5, 3>>>>,
      <<<<3, 4>>, <<1, 5>>>>, <<<<1, 6>>, <<2, 4>>>>,
      <<<<1, 5>>, <<3, 4>>>>, <<<<2, 4>>, <<3, 6>>>>,
      <<<<3, 4>>, <<2, 6>>>>, <<<<3, 6>>, <<2, 8>>>>,
      <<<<1, 3>>, <<2, 1>>>>, <<<<5, 3>>, <<6, 5>>>>,
      <<<<2, 6>>, <<3, 4>>>>, <<<<6, 5>>, <<8, 6>>>>,
      <<<<3, 4>>, <<5, 5>>>>, <<<<2, 8>>, <<1, 6>>>>,
      <<<<5, 5>>, <<7, 6>>>>, <<<<1, 6>>, <<2, 4>>>>,
      <<<<7, 6>>, <<6, 4>>>>, <<<<2, 4>>, <<1, 6>>>>,
      <<<<2, 1>>, <<1, 3>>>>, <<<<1, 6>>, <<2, 8>>>>,
      <<<<6, 4>>, <<4, 3>>>>, <<<<8, 6>>, <<7, 4>>>>,
      <<<<1, 3>>, <<2, 5>>>>, <<<<7, 4>>, <<8, 6>>>>,
      <<<<4, 3>>, <<2, 4>>>>, <<<<8, 6>>, <<7, 4>>>>,
      <<<<2, 5>>, <<3, 3>>>>, <<<<7, 4>>, <<5, 3>>>>,
      <<<<3, 3>>, <<1, 4>>>>, <<<<5, 3>>, <<7, 4>>>>,
      <<<<1, 4>>, <<3, 5>>>>, <<<<7, 4>>, <<8, 6>>>>,
      <<<<2, 4>>, <<4, 3>>>>, <<<<8, 6>>, <<7, 8>>>>,
      <<<<3, 5>>, <<1, 4>>>>, <<<<2, 8>>, <<1, 6>>>>,
      <<<<4, 3>>, <<3, 5>>>>, <<<<7, 8>>, <<8, 6>>>>,
      <<<<3, 5>>, <<4, 3>>>>, <<<<1, 6>>, <<2, 4>>>>,
      <<<<4, 3>>, <<3, 5>>>>, <<<<2, 4>>, <<4, 5>>>>,
      <<<<3, 5>>, <<1, 6>>>>, <<<<4, 5>>, <<6, 6>>>>,
      <<<<1, 6>>, <<2, 8>>>>, <<<<8, 6>>, <<7, 4>>>>,
      <<<<1, 4>>, <<3, 5>>>>, <<<<6, 6>>, <<7, 8>>>>,
      <<<<3, 5>>, <<2, 3>>>>, <<<<7, 4>>, <<5, 5>>>>,
      <<<<2, 3>>, <<4, 4>>>>, <<<<7, 8>>, <<6, 6>>>>,
      <<<<4, 4>>, <<3, 6>>>>, <<<<6, 6>>, <<4, 5>>>>,
      <<<<2, 8>>, <<1, 6>>>>, <<<<5, 5>>, <<7, 6>>>>,
      <<<<1, 6>>, <<2, 4>>>>, <<<<4, 5>>, <<6, 6>>>>>>

LongGames == Games \cup {BareKings, HundredPlies}

\* The games followed: the long ones while the Random move button has not
\* been used, the short ones afterwards.
FollowedGames == IF randomUsed = 0 THEN LongGames ELSE Games

\* A click on a board square's button, along the followed games.
TapLongGame ==
    \E square \in NextSquares(FollowedGames, chess) :
        handleSquareSelect(square)

NextLong ==
    TapLongGame \/ UndoButton \/ RestartButton \/ RandomGame \/ FlipButton

SpecLong == Init /\ [][NextLong]_vars

(***************************************************************************)
(* buildMovePairs on its own: any history of up to MaxHistory entries is   *)
(* given to it, the entries drawn from a few move notations.               *)
(***************************************************************************)
PairEntries == {"e2e4", "e7e5", "g1f3"}

Histories == UNION {[1..n -> PairEntries] : n \in 0..MaxHistory}

\* A history to pair, with nothing paired yet.
InitPairs ==
    /\ chess = NewChess
    /\ selected = NoSquare
    /\ legalTargets = {}
    /\ history \in Histories
    /\ pairs = <<>>
    /\ orientationWhite = TRUE
    /\ status = ""
    /\ isGameOver = FALSE
    /\ lastMove = NoLastMove
    /\ boardSquares = ComputeBoardSquares(NewChess, NoSquare, {}, TRUE,
                                          NoLastMove)
    /\ lastOp = Op("pairs", "pending")
    /\ randomUsed = 0

\* setPairs(buildMovePairs(history))
BuildPairs ==
    /\ lastOp.outcome = "pending"
    /\ pairs' = buildMovePairs(history)
    /\ lastOp' = Op("pairs", "built")
    /\ UNCHANGED <<chess, selected, legalTargets, history, orientationWhite,
                   status, isGameOver, lastMove, boardSquares, randomUsed>>

NextPairs == BuildPairs

SpecPairs == InitPairs /\ [][NextPairs]_vars

(***************************************************************************)
(* The claims.                                                             *)
(***************************************************************************)
\* The tapped square holds a piece of the side to move.
OwnPiece(t) == Get(chess, t) # null /\ Get(chess, t).color = Turn(chess)

\* The GameState and everything displayed from it are as before the step.
GameUntouched == UNCHANGED <<chess, history, pairs, status, isGameOver>>

\* C1: with a piece selected on s, a tap on a square t of the legal
\* targets applies the move s-t: afterwards nothing is selected, the targets
\* are empty, the last-move marker is exactly (s, t), the engine's and the
\* displayed history are one entry longer, the new last entry is the move
\* s-t, and the side to move has flipped.
C1_TapTargetCommitsMove ==
    [][\A t \in TapSquares :
        (selected # NoSquare /\ t \in legalTargets /\ handleSquareSelect(t))
        => /\ selected' = NoSquare
           /\ legalTargets' = {}
           /\ lastMove' = [from |-> selected, to |-> t]
           /\ Len(chess'.hist) = Len(chess.hist) + 1
           /\ chess'.hist[Len(chess'.hist)].move.from = selected
           /\ chess'.hist[Len(chess'.hist)].move.to = t
           /\ Len(history') = Len(history) + 1
           /\ Turn(chess') = Other(Turn(chess))]_vars

\* C1's case: a tap has just applied a move.
C1_Witness ==
    /\ lastOp = Op("tap", "moved")
    /\ selected = NoSquare
    /\ lastMove.to \in TapSquares
    /\ Len(history) >= 2

\* C2: with nothing selected, a tap on a square t holding a piece of the
\* side to move selects t, makes the targets exactly the destinations of
\* the legal moves from t in the current position, and leaves the GameState
\* (board, side to move, history) as it was.
C2_TapOwnPieceSelects ==
    [][\A t \in TapSquares :
        (selected = NoSquare /\ OwnPiece(t) /\ handleSquareSelect(t))
        => /\ selected' = t
           /\ legalTargets' = {m.to : m \in MovesFrom(chess.pos, t)}
           /\ GameUntouched]_vars

\* C2's case: a first selection of a piece that has somewhere to go.
C2_Witness ==
    /\ lastOp = Op("tap", "selected")
    /\ selected \in TapSquares
    /\ legalTargets # {}

\* C3: with a piece selected on A, a tap on another square B holding a
\* piece of the side to move selects B with the targets recomputed for B;
\* no move is made: GameState and last-move marker are unchanged.
C3_TapOtherOwnPieceReselects ==
    [][\A t \in TapSquares :
        (selected # NoSquare /\ selected # t /\ OwnPiece(t)
            /\ handleSquareSelect(t))
        => /\ selected' = t
           /\ legalTargets' = {m.to : m \in MovesFrom(chess.pos, t)}
           /\ GameUntouched
           /\ UNCHANGED lastMove]_vars

\* C3's case: a re-selection, made after a move so that a marker is shown.
C3_Witness ==
    /\ lastOp = Op("tap", "reselected")
    /\ selected \in TapSquares
    /\ lastMove # NoLastMove

\* C4: with a piece selected on s, a tap on s itself clears the selection
\* and the targets and changes nothing else: GameState, history, last-move
\* marker and orientation stay.
C4_TapSameSquareDeselects ==
    [][\A t \in TapSquares :
        (selected # NoSquare /\ selected = t /\ handleSquareSelect(t))
        => /\ selected' = NoSquare
           /\ legalTargets' = {}
           /\ GameUntouched
           /\ UNCHANGED <<lastMove, orientationWhite>>]_vars

\* C4's case: a deselection by a second tap, in a game with moves made.
C4_Witness ==
    /\ lastOp = Op("tap", "deselected")
    /\ selected = NoSquare
    /\ history # <<>>

\* C5: with a piece selected, a tap on a square that neither holds a piece
\* of the side to move nor is a legal target clears the selection and the
\* targets and makes no move: board, side to move, history and last-move
\* marker are exactly as before.
C5_TapElsewhereDeselects ==
    [][\A t \in TapSquares :
        (selected # NoSquare /\ ~OwnPiece(t) /\ t \notin legalTargets
            /\ handleSquareSelect(t))
        => /\ selected' = NoSquare
           /\ legalTargets' = {}
           /\ GameUntouched
           /\ UNCHANGED lastMove]_vars

\* C5's case: a tap away from the selection and its targets, in a game
\* with moves made.
C5_Witness ==
    /\ lastOp = Op("tap", "rejected")
    /\ selected = NoSquare
    /\ history # <<>>

\* The handler gets as far as attempting the move from the selection to t.
AttemptIssued(t) == selected # NoSquare /\ selected # t /\ ~OwnPiece(t)

\* The engine rejects the move from the selection to t.
Rejected(t) == MatchingMoves(chess, selected, t, "q") = {}

C7_UndoMarker ==
    [][(lastOp'.op = "undo" /\ chess.hist # <<>>)
        => LET undone == chess.hist[Len(chess.hist)].move
           IN  IF chess'.hist # <<>>
               THEN lastMove' = [from |-> undone.from, to |-> undone.to]
               ELSE lastMove' = NoLastMove]_vars

C9_ResetClearsEverything ==
    lastOp.op = "reset"
    => /\ chess.pos.board = InitialBoard
       /\ chess.pos.turn = "w"
       /\ chess.pos.castling = AllRights
       /\ chess.pos.epSquare = NoSquare
       /\ chess.hist = <<>>
       /\ selected = NoSquare
       /\ legalTargets = {}
       /\ lastMove = NoLastMove
       /\ history = <<>>
       /\ pairs = <<>>
       /\ isGameOver = FALSE
       /\ status = "White to move"

\* C9's case: a reset of a game in which a random move was played, seen
\* from Black's side.
C9_Witness ==
    /\ lastOp = Op("reset", "reset")
    /\ randomUsed > 0
    /\ orientationWhite = FALSE

\* C10: a flip negates the orientation flag and changes nothing else:
\* GameState, selection, targets, last-move marker, move pairs and status
\* stay, so that a second flip restores the orientation.
C10_FlipOnlyOrientation ==
    [][lastOp'.op = "flip"
        => /\ orientationWhite' = ~orientationWhite
           /\ GameUntouched
           /\ UNCHANGED <<selected, legalTargets, lastMove>>]_vars

\* C10's case: the board flipped back to White's side with a piece
\* selected and a move marked.
C10_Witness ==
    /\ lastOp = Op("flip", "flipped")
    /\ orientationWhite = TRUE
    /\ selected \in TapSquares
    /\ lastMove # NoLastMove

\* C11: handleRandomMove applies exactly one move, a member of the full
\* legal-move set of the side to move in the current position: the engine's
\* and the displayed history grow by that one move, selection and targets
\* are cleared and the last-move marker is the move's endpoints.  When the
\* legal-move set is empty it changes neither the GameState nor selection,
\* targets or last-move marker.
C11_RandomMoveAppliesOneLegalMove ==
    [][lastOp'.op = "random"
        => IF NoMoves(chess.pos)
           THEN /\ GameUntouched
                /\ UNCHANGED <<selected, legalTargets, lastMove>>
           ELSE /\ Len(chess'.hist) = Len(chess.hist) + 1
                /\ LET m == chess'.hist[Len(chess'.hist)].move
                   IN  /\ m \in Moves(chess.pos)
                       /\ chess' = MakeMove(chess, m)
                       /\ history' = Append(history, Notation(m))
                       /\ lastMove' = [from |-> m.from, to |-> m.to]
                /\ selected' = NoSquare
                /\ legalTargets' = {}]_vars

\* C11's cases, both in one run: a random move was drawn, it mated, and
\* handleRandomMove was then invoked on the empty legal-move set.
C11_Witness ==
    /\ lastOp = Op("random", "nothing")
    /\ randomUsed > 0
    /\ NoMoves(chess.pos)
    /\ lastMove = [from |-> <<4, 8>>, to |-> <<8, 4>>]

\* C12: for a history of n entries buildMovePairs gives ceil(n/2) pairs,
\* numbered 1, 2, ... in order; pair k holds entry 2k-1 as its white move
\* and entry 2k as its black move; the black move is absent only in the
\* last pair, and exactly when n is odd.
C12_PairsOfHistory ==
    lastOp = Op("pairs", "built")
    => LET n == Len(history)
       IN  /\ Len(pairs) = (n + 1) \div 2
           /\ \A k \in 1..Len(pairs) :
                 /\ pairs[k].ply = k
                 /\ pairs[k].white = history[2 * k - 1]
                 /\ 2 * k <= n => pairs[k].black = history[2 * k]
                 /\ pairs[k].black = undefined
                        <=> (k = Len(pairs) /\ n % 2 = 1)

\* C12's case: an odd history of several pairs, its last pair without a
\* black move.
C12_Witness ==
    /\ lastOp = Op("pairs", "built")
    /\ Len(history) = 5
    /\ Len(pairs) = 3
    /\ pairs[3].black = undefined
    /\ pairs[2].black # undefined

\* The status strings of the specification, the bullet written *.
StatusStrings ==
    {"Checkmate * White wins", "Checkmate * Black wins", "Draw * Stalemate",
     "Draw * Insufficient material", "Draw * Threefold repetition", "Draw",
     "White to move", "Black to move", "White to move * Check",
     "Black to move * Check"}

\* The status the specification gives for the engine's current position.
SpecifiedStatus ==
    LET mover == IF Turn(chess) = "w" THEN "White" ELSE "Black"
        winner == IF Turn(chess) = "w" THEN "Black" ELSE "White"
    IN  CASE IsCheckmate(chess) -> "Checkmate * " \o winner \o " wins"
          [] ~IsCheckmate(chess) /\ IsStalemate(chess) -> "Draw * Stalemate"
          [] ~NoMoves(chess.pos) /\ IsInsufficientMaterial(chess)
                -> "Draw * Insufficient material"
          [] ~NoMoves(chess.pos) /\ ~IsInsufficientMaterial(chess)
                /\ IsThreefoldRepetition(chess)
                -> "Draw * Threefold repetition"
          [] ~NoMoves(chess.pos) /\ ~IsInsufficientMaterial(chess)
                /\ ~IsThreefoldRepetition(chess) /\ IsDraw(chess)
                -> "Draw"
          [] ~IsGameOver(chess) /\ InCheck(chess) -> mover \o " to move * Check"
          [] ~IsGameOver(chess) /\ ~InCheck(chess) -> mover \o " to move"

\* C13: in every reachable state the displayed status is one of the
\* specified strings and is the one for the engine's position: the mate
\* with the winner opposite to the side to move, else the stalemate, else
\* insufficient material, else the threefold repetition, else the plain
\* draw; and with the game not over the side to move, with the check
\* suffix exactly when that side is in check.
C13_StatusMatchesEngine ==
    /\ status \in StatusStrings
    /\ status = SpecifiedStatus

\* C13's case: a mate on the board, White mated and Black named the winner.
C13_Witness ==
    /\ status = "Checkmate * Black wins"
    /\ Turn(chess) = "w"
    /\ IsCheckmate(chess)
    /\ Len(history) = 4

\* The other statuses the recorded games reach.
C13_CheckReached == status = "Black to move * Check" /\ InCheck(chess)

C13_StalemateReached == status = "Draw * Stalemate" /\ Len(history) = 19

C13_InsufficientReached ==
    /\ status = "Draw * Insufficient material"
    /\ \A s \in Squares :
          chess.pos.board[s] # null => chess.pos.board[s].type = "k"

C13_ThreefoldReached ==
    status = "Draw * Threefold repetition" /\ ~NoMoves(chess.pos)

C13_FiftyMovesReached ==
    status = "Draw" /\ chess.pos.halfMoves = 100 /\ PositionCount(chess) = 1

\* C14: once an operation has completed, the displayed history is the
\* engine's history, the move pairs are the pairing of that history, the
\* game-over flag is the engine's game-over condition and the status is
\* the one for the engine's current position.
C14_DerivedStateFresh ==
    /\ history = History(chess)
    /\ pairs = buildMovePairs(History(chess))
    /\ isGameOver = (IsCheckmate(chess) \/ IsStalemate(chess) \/ IsDraw(chess))
    /\ status = SpecifiedStatus

\* C14's case: the stalemating move undone, the game running again with
\* eighteen moves shown in nine pairs.
C14_Witness ==
    /\ lastOp = Op("undo", "undone")
    /\ Len(chess.hist) = 18
    /\ Len(history) = 18
    /\ Len(pairs) = 9
    /\ ~isGameOver
    /\ status = "White to move"

\* The step applied a move that brought a pawn to its last rank.
PawnReachedLastRank ==
    /\ Len(chess'.hist) = Len(chess.hist) + 1
    /\ LET m == chess'.hist[Len(chess'.hist)].move
       IN  m.piece = "p" /\ m.to[2] = PromotionRank(m.color)

\* The piece standing, after the step, where the applied move ended.
ArrivedPiece == chess'.pos.board[chess'.hist[Len(chess'.hist)].move.to]

\* C15 as stated: every move the controller applies that brings a pawn to
\* its last rank, by a tap or by handleRandomMove, leaves a queen of the
\* pawn's colour there.
C15_PromotionAlwaysQueen ==
    [][PawnReachedLastRank => ArrivedPiece = P(Turn(chess), "q")]_vars

\* C15 as amended: a tap that brings a pawn to its last rank leaves a queen
\* of the pawn's colour there; handleRandomMove, which draws from the full
\* legal-move set, leaves a knight, bishop, rook or queen of that colour.
C15_TapPromotesToQueen ==
    [][PawnReachedLastRank
        => IF lastOp'.op = "tap"
           THEN ArrivedPiece = P(Turn(chess), "q")
           ELSE /\ lastOp'.op = "random"
                /\ ArrivedPiece.color = Turn(chess)
                /\ ArrivedPiece.type \in {"n", "b", "r", "q"}]_vars

\* C15's case: a tap has just taken the white pawn from h7 to g8, where a
\* white queen now stands.
C15_Witness ==
    /\ lastOp = Op("tap", "moved")
    /\ lastMove = [from |-> <<8, 7>>, to |-> <<7, 8>>]
    /\ chess.hist[Len(chess.hist)].move.piece = "p"
    /\ Get(chess, <<7, 8>>) = P("w", "q")

\* C16: with nothing selected, a tap on an empty square or on a piece of
\* the side not to move is ignored: nothing is selected afterwards, the
\* targets stay empty, no move is attempted, and GameState, history,
\* last-move marker and status are as before.
C16_TapWithoutSelectionIgnored ==
    [][\A t \in TapSquares :
        (selected = NoSquare /\ ~OwnPiece(t) /\ handleSquareSelect(t))
        => /\ selected' = NoSquare
           /\ legalTargets = {}
           /\ legalTargets' = {}
           /\ lastOp' = Op("tap", "ignored")
           /\ GameUntouched
           /\ UNCHANGED lastMove]_vars

\* C16's case: an ignored tap in a game with moves made and shown.
C16_Witness ==
    /\ lastOp = Op("tap", "ignored")
    /\ selected = NoSquare
    /\ lastMove # NoLastMove
    /\ Len(history) >= 2

C18_SelectionMatchesPosition ==
    IF selected = NoSquare
    THEN legalTargets = {}
    ELSE /\ chess.pos.board[selected] # null
         /\ chess.pos.board[selected].color = chess.pos.turn
         /\ legalTargets = {m.to : m \in MovesFrom(chess.pos, selected)}

\* C18's case: Black's queen selected after 1... e7-e5 has opened its
\* diagonal, with its four destinations e7, f6, g5 and h4 shown.
C18_Witness ==
    /\ selected = <<4, 8>>
    /\ chess.pos.turn = "b"
    /\ legalTargets = {<<5, 7>>, <<6, 6>>, <<7, 5>>, <<8, 4>>}
    /\ Len(chess.hist) = 3

\* C19: once the game-over flag is true, no tap and no handleRandomMove
\* changes the board or appends to the move history.
C19_NoMoveAfterGameOver ==
    [][(isGameOver /\ lastOp'.op \in {"tap", "random"})
        => /\ chess'.pos.board = chess.pos.board
           /\ Len(chess'.hist) <= Len(chess.hist)
           /\ Len(history') <= Len(history)]_vars

\* C20: in the board snapshot of every reachable state at most one square
\* carries the in-check highlight; a square carries it exactly when the
\* side to move is in check and the square holds that side's king; and on
\* each square the selected, legal-target and last-move flags agree with
\* the controller's selection, targets and last-move marker.  The snapshot
\* lists all 64 squares, from a8 for White's orientation and from h1 for
\* Black's.
C20_SnapshotAgrees ==
    /\ Cardinality({n \in 1..64 : boardSquares[n].isCheck}) <= 1
    /\ {boardSquares[n].square : n \in 1..64} = Squares
    /\ boardSquares[1].square
          = IF orientationWhite THEN <<1, 8>> ELSE <<8, 1>>
    /\ \A n \in 1..64 :
          LET sq == boardSquares[n]
          IN  /\ sq.isCheck
                    <=> /\ InCheck(chess)
                        /\ chess.pos.board[sq.square] = P(chess.pos.turn, "k")
              /\ sq.isSelected <=> selected = sq.square
              /\ sq.isLegalTarget <=> sq.square \in legalTargets
              /\ sq.isLastMove
                    <=> /\ lastMove # NoLastMove
                        /\ sq.square \in {lastMove.from, lastMove.to}

\* C20's case: White is mated and the board is shown from Black's side;
\* the fourth square of the top row is e1 with White's king, highlighted,
\* and the mating move's squares are marked.
C20_Witness ==
    /\ ~orientationWhite
    /\ IsCheckmate(chess)
    /\ boardSquares[4].square = <<5, 1>>
    /\ boardSquares[4].piece = P("w", "k")
    /\ boardSquares[4].isCheck
    /\ \E n \in 1..64 :
          boardSquares[n].square = <<8, 4>> /\ boardSquares[n].isLastMove

====
